---------------------------- MODULE Spec2Model ----------------------------
(***************************************************************************)
(* Spotifai: the admission controller (checkRateLimit and its reaper) of   *)
(* routes/authRoutes.js, the /generate-image handler that consults it,     *)
(* and the tiered artwork store of database-hybrid.js.                     *)
(*                                                                         *)
(* Time is Date.now() in milliseconds.  Node runs every synchronous        *)
(* stretch of JavaScript to completion, so one action is one synchronous   *)
(* stretch: a whole checkRateLimit call, a whole reaper callback, the part *)
(* of an async function between two awaits.                                *)
(***************************************************************************)
EXTENDS Integers, Sequences, FiniteSets, TLC

VARIABLES
    now,            \* Date.now()
    nextReap,       \* instant at which the setInterval callback is due next
    rateLimitMap,   \* the Map sessionId -> {requests, totalRequests, lastRequest}
    last,           \* observation: the most recent checkRateLimit call
    hist,           \* observation, per session key: its checks so far
    fineUsed,       \* number of sub-period clock advances taken so far
    unreaped,       \* observation: rateLimitMap as it would be had the
                    \* reaper never deleted anything
    isVercel,       \* process.env.VERCEL === '1'
    redis,          \* whether the module-level redis client is non-null
    remote,         \* the remote key-value store: artworks:<userId> -> JSON text
    sessionArtworks,\* global.sessionArtworks, the in-process fallback map
    db,             \* the module-level db object
    file,           \* the contents of data/artworks.json
    calls,          \* per concurrent invocation: the store call it is running
    serial,         \* number of artworks generated so far (names their urls)
    out,            \* observation: the store call that returned last
    budget,         \* observation: remote failures, ms elapsed, removals,
                    \* and (hit) the artworks whose append met a failure
    returned,       \* observation, per owner: the artworks addArtwork returned
    requests        \* per POST /generate-image request: where its handler is

admissionVars == <<nextReap, rateLimitMap, last, hist, fineUsed, unreaped>>

storeVars == <<isVercel, redis, remote, sessionArtworks, db, file, calls,
               serial, out, budget, returned>>

vars == <<now, nextReap, rateLimitMap, last, hist, fineUsed, unreaped,
          isVercel, redis, remote, sessionArtworks, db, file, calls,
          serial, out, budget, returned, requests>>

---------------------------------------------------------------------------
(* Program constants, routes/authRoutes.js *)

SESSION_TIMEOUT == 30 * 60 * 1000

MAX_REQUESTS_PER_SESSION == 10

COOLDOWN_PERIOD == 30 * 1000

MAX_REQUESTS_PER_MINUTE == 3

MINUTE_WINDOW == 60 * 1000

RETENTION_WINDOW == 2 * 60 * 1000

REAP_PERIOD == 5 * 60 * 1000

---------------------------------------------------------------------------
(* Bounds of the exploration *)

\* Date.now() when the module is loaded (any instant of the present era:
\* far more than COOLDOWN_PERIOD after the epoch).
StartTime == 10000000

\* The run is explored for this many milliseconds after StartTime.
Horizon == 4800000

\* At most this many clock advances shorter than the wait for the reaper.
MaxFine == 2

\* At most this many checks are explored per session key.
MaxChecks == 11

MaxTime == StartTime + Horizon

FineDeltas == {10000, 30000, 90000}

Keys == {"ip1-agentA"}

---------------------------------------------------------------------------
(* Helpers *)

CeilDiv(a, b) == (a + b - 1) \div b

RECURSIVE MinOf(_)
MinOf(s) ==
    IF Len(s) = 1 THEN s[1]
    ELSE LET m == MinOf(Tail(s)) IN IF s[1] < m THEN s[1] ELSE m

MapSet(m, k, v) == [x \in (DOMAIN m) \cup {k} |-> IF x = k THEN v ELSE m[x]]

\* rateLimitMap.get(sessionId) || { requests: [], totalRequests: 0, lastRequest: 0 }
UserData(m, sessionId) ==
    IF sessionId \in DOMAIN m THEN m[sessionId]
    ELSE [requests |-> <<>>, totalRequests |-> 0, lastRequest |-> 0]

---------------------------------------------------------------------------
(* checkRateLimit(sessionId), evaluated at instant t on map m.  The result *)
(* is the returned decision together with the map as the call leaves it.  *)

\* A cap that is off by one: the check passes while the counter equals the cap.
SessionLimitHitOffByOne(userData, t) ==
    userData.totalRequests > MAX_REQUESTS_PER_SESSION

SessionLimitHit(userData, t) ==
    userData.totalRequests >= MAX_REQUESTS_PER_SESSION

\* A cooldown that never holds a request back.
CooldownHitNever(userData, t) ==
    t - userData.lastRequest < 0

CooldownHit(userData, t) ==
    t - userData.lastRequest < COOLDOWN_PERIOD

RecentRequests(userData, t) ==
    SelectSeq(userData.requests, LAMBDA time : t - time < MINUTE_WINDOW)

MinuteLimitHit(userData, t) ==
    Len(RecentRequests(userData, t)) >= MAX_REQUESTS_PER_MINUTE

SessionLimitDecision ==
    [allowed |-> FALSE,
     reason |-> "session_limit",
     message |-> <<"You've reached the maximum of", MAX_REQUESTS_PER_SESSION,
                   "requests per session. Please refresh the page to start a new session.">>,
     retryAfter |-> SESSION_TIMEOUT]

\* A retry hint that reports the time already waited instead of the time left.
CooldownDecisionElapsed(userData, t) ==
    [allowed |-> FALSE,
     reason |-> "cooldown",
     message |-> <<"Please wait",
                   CeilDiv(COOLDOWN_PERIOD - (t - userData.lastRequest), 1000),
                   "seconds before making another request.">>,
     retryAfter |-> t - userData.lastRequest]

CooldownDecision(userData, t) ==
    [allowed |-> FALSE,
     reason |-> "cooldown",
     message |-> <<"Please wait",
                   CeilDiv(COOLDOWN_PERIOD - (t - userData.lastRequest), 1000),
                   "seconds before making another request.">>,
     retryAfter |-> COOLDOWN_PERIOD - (t - userData.lastRequest)]

MinuteLimitDecision(userData, t) ==
    LET oldestRequest == MinOf(RecentRequests(userData, t))
        retryAfter == MINUTE_WINDOW - (t - oldestRequest)
    IN  [allowed |-> FALSE,
         reason |-> "rate_limit",
         message |-> <<"Too many requests. Please wait",
                       CeilDiv(retryAfter, 1000), "seconds.">>,
         retryAfter |-> retryAfter]

AllowedDecision == [allowed |-> TRUE]

\* An update that never prunes: every timestamp ever pushed is kept.
UpdatedUserDataNoPrune(userData, t) ==
    [requests |-> Append(userData.requests, t),
     totalRequests |-> userData.totalRequests + 1,
     lastRequest |-> t]

\* An update that prunes with the one-minute window of the policy.
UpdatedUserDataMinutePrune(userData, t) ==
    [requests |-> SelectSeq(Append(userData.requests, t),
                            LAMBDA time : t - time < MINUTE_WINDOW),
     totalRequests |-> userData.totalRequests + 1,
     lastRequest |-> t]

\* An update whose increment is lost, as when two checks write the count
\* they both read.
UpdatedUserDataLostIncrement(userData, t) ==
    [requests |-> SelectSeq(Append(userData.requests, t),
                            LAMBDA time : t - time < RETENTION_WINDOW),
     totalRequests |-> IF userData.totalRequests = 0 THEN 1
                       ELSE userData.totalRequests,
     lastRequest |-> t]

\* userData after lines 128-133: push, increment, stamp, then prune.
UpdatedUserData(userData, t) ==
    [requests |-> SelectSeq(Append(userData.requests, t),
                            LAMBDA time : t - time < RETENTION_WINDOW),
     totalRequests |-> userData.totalRequests + 1,
     lastRequest |-> t]

\* The policies with the cooldown tested before the session cap.
DecideCooldownFirst(userData, t) ==
    IF CooldownHit(userData, t) THEN CooldownDecision(userData, t)
    ELSE IF SessionLimitHit(userData, t) THEN SessionLimitDecision
    ELSE IF MinuteLimitHit(userData, t) THEN MinuteLimitDecision(userData, t)
    ELSE AllowedDecision

Decide(userData, t) ==
    IF SessionLimitHit(userData, t) THEN SessionLimitDecision
    ELSE IF CooldownHit(userData, t) THEN CooldownDecision(userData, t)
    ELSE IF MinuteLimitHit(userData, t) THEN MinuteLimitDecision(userData, t)
    ELSE AllowedDecision

\* A check that stamps lastRequest on every attempt, rejected ones included.
checkRateLimitStampsAttempts(m, sessionId, t) ==
    LET userData == UserData(m, sessionId)
        decision == Decide(userData, t)
    IN  [result |-> decision,
         map |-> IF decision.allowed
                 THEN MapSet(m, sessionId, UpdatedUserData(userData, t))
                 ELSE MapSet(m, sessionId, [userData EXCEPT !.lastRequest = t])]

checkRateLimit(m, sessionId, t) ==
    LET userData == UserData(m, sessionId)
        decision == Decide(userData, t)
    IN  [result |-> decision,
         map |-> IF decision.allowed
                 THEN MapSet(m, sessionId, UpdatedUserData(userData, t))
                 ELSE m]

---------------------------------------------------------------------------
(* The reaper: the setInterval callback, evaluated at instant t. *)

\* A reaper for which every record is stale at once.
StaleAtOnce(data, t) == t - data.lastRequest >= 0

\* A reaper that also deletes a record idle for exactly the timeout.
StaleAtTimeout(data, t) == t - data.lastRequest >= SESSION_TIMEOUT

Stale(data, t) == t - data.lastRequest > SESSION_TIMEOUT

\* A callback that deletes nothing.
ReapedNothing(m, t) == m

Reaped(m, t) == [k \in {x \in DOMAIN m : ~Stale(m[x], t)} |-> m[k]]

---------------------------------------------------------------------------
(* The artwork store, database-hybrid.js.                                  *)
(*                                                                         *)
(* An artwork's id is Date.now().toString(): the decimal string of an      *)
(* integer, modelled by the integer (the conversion is one-to-one, and ids *)
(* are only ever compared for equality).  Its url stands for the opaque    *)
(* payload: the n-th generated image has url n.  The remote store holds,   *)
(* per owner, the text JSON.stringify produced: json says what             *)
(* JSON.parse makes of it.                                                 *)

HISTORY_CAP == 50

Users == {"u1", "anonymous"}

Procs == 1..2

\* Bounds of the exploration of the store: artworks added, remote calls
\* that fail, milliseconds that pass.
MaxAdds == 3

MaxFailures == 1

MaxMs == 1

\* Artworks added when filling a history past the cap
FillAdds == 52

Min(a, b) == IF a < b THEN a ELSE b

\* A slice that keeps one artwork too many.
SliceOneMore(artworks) ==
    SubSeq(artworks, 1, Min(Len(artworks), HISTORY_CAP + 1))

\* artworks.slice(0, 50)
Slice(artworks) == SubSeq(artworks, 1, Min(Len(artworks), HISTORY_CAP))

\* JSON.stringify(limitedArtworks)
Stringify(artworks) == [json |-> "array", items |-> artworks]

NullValue == [json |-> "null", items |-> <<>>]

\* Stored payloads that are not the text of an array: one that JSON.parse
\* rejects, and one that parses to an object (items stands for that value).
Garbage == [json |-> "garbage", items |-> <<>>]

NotArray == [json |-> "object", items |-> <<[id |-> 0]>>]

\* await redis.get(`artworks:${userId}`)
RedisGet(store, userId) ==
    IF userId \in DOMAIN store THEN store[userId] ELSE NullValue

\* global.sessionArtworks && global.sessionArtworks[userId], else []
FallbackArtworks(memory, userId) ==
    IF userId \in DOMAIN memory THEN memory[userId] ELSE <<>>

\* A reading that stays on the fallback map once the owner has an entry in it.
RemoteArtworksSticky(answered, store, memory, userId) ==
    LET artworksJson == RedisGet(store, userId)
    IN  IF ~answered \/ userId \in DOMAIN memory
        THEN FallbackArtworks(memory, userId)
        ELSE IF artworksJson.json = "null" THEN <<>>
        ELSE IF artworksJson.json = "garbage"
             THEN FallbackArtworks(memory, userId)
        ELSE IF artworksJson.json = "array" THEN artworksJson.items
        ELSE <<>>

\* A reading that hands on whatever JSON.parse produced.
RemoteArtworksUnchecked(answered, store, memory, userId) ==
    LET artworksJson == RedisGet(store, userId)
    IN  IF ~answered THEN FallbackArtworks(memory, userId)
        ELSE IF artworksJson.json = "null" THEN <<>>
        ELSE IF artworksJson.json = "garbage"
             THEN FallbackArtworks(memory, userId)
        ELSE artworksJson.items

\* What getUserArtworks resolves to on the remote tier once redis.get has
\* settled: answered says whether the get resolved (it may reject).
RemoteArtworks(answered, store, memory, userId) ==
    LET artworksJson == RedisGet(store, userId)
    IN  IF ~answered THEN FallbackArtworks(memory, userId)
        ELSE IF artworksJson.json = "null" THEN <<>>
        ELSE IF artworksJson.json = "garbage"
             THEN FallbackArtworks(memory, userId)
        ELSE IF artworksJson.json = "array" THEN artworksJson.items
        ELSE <<>>

\* getUserArtworks on the file tier: db[userId], or [] when it is no array
FileArtworks(database, userId) ==
    IF userId \in DOMAIN database THEN database[userId] ELSE <<>>

\* unshift(newArtwork), then slice(0, 50) when longer than 50
Unshifted(artworks, newArtwork) ==
    LET longer == <<newArtwork>> \o artworks
    IN  IF Len(longer) > HISTORY_CAP THEN Slice(longer) ELSE longer

\* artworks.filter(artwork => artwork.id !== artworkId)
WithoutId(artworks, artworkId) ==
    SelectSeq(artworks, LAMBDA artwork : artwork.id # artworkId)

NoArtwork == [id |-> 0, timestamp |-> 0, url |-> 0, songs |-> <<>>]

IdleCall ==
    [op |-> "idle", pc |-> "idle", userId |-> "", artwork |-> NoArtwork,
     pending |-> NullValue]

\* lastCreated: a timestamp, or null
NoTimestamp == [null |-> TRUE, at |-> 0]

NoStats == [totalArtworks |-> 0, uniqueSongs |-> 0, lastCreated |-> NoTimestamp]

\* What a store call settled with: kind is "artwork", "list", "bool" or
\* "stats" for a resolved promise, by the type of its value, and "throw" for
\* a rejected one.
NoReturn ==
    [proc |-> 0, op |-> "", userId |-> "", kind |-> "none",
     artwork |-> NoArtwork, list |-> <<>>, ok |-> FALSE, stats |-> NoStats]

Returns(p, op, userId) ==
    [NoReturn EXCEPT !.proc = p, !.op = op, !.userId = userId]

ReturnArtwork(p, op, userId, a) ==
    [Returns(p, op, userId) EXCEPT !.kind = "artwork", !.artwork = a]

ReturnList(p, op, userId, l) ==
    [Returns(p, op, userId) EXCEPT !.kind = "list", !.list = l]

ReturnBool(p, op, userId, b) ==
    [Returns(p, op, userId) EXCEPT !.kind = "bool", !.ok = b]

Threw(p, op, userId) == [Returns(p, op, userId) EXCEPT !.kind = "throw"]

ReturnStats(p, op, userId, st) ==
    [Returns(p, op, userId) EXCEPT !.kind = "stats", !.stats = st]

\* The Set that lines 193-197 fill: every song of every artwork
UniqueSongs(artworks) ==
    UNION {{artworks[i].songs[j] : j \in 1..Len(artworks[i].songs)} :
              i \in 1..Len(artworks)}

\* getUserStats once the history is at hand (lines 192-205)
Stats(artworks) ==
    [totalArtworks |-> Len(artworks),
     uniqueSongs |-> Cardinality(UniqueSongs(artworks)),
     lastCreated |-> IF Len(artworks) > 0
                     THEN [null |-> FALSE, at |-> artworks[1].timestamp]
                     ELSE NoTimestamp]

SongLists == {<<"A", "B">>, <<"B", "C">>}

\* A history persisted by an earlier process: n artworks, newest first,
\* created before StartTime.
Persisted(n) ==
    [i \in 1..n |->
        [id |-> StartTime - i, timestamp |-> StartTime - i, url |-> 0 - i,
         songs |-> <<"A", "B">>]]

\* The state once the module is loaded, in deployment mode
\*   "file":   running locally, db read from data/artworks.json
\*   "redis":  on Vercel with Redis credentials
\*   "memory": on Vercel without a Redis client
\* with history the history of owner u1 that data/artworks.json holds and
\* store the contents of the remote store.
StoreLoadedWith(mode, history, store) ==
    LET stored == IF history = <<>> THEN <<>>
                  ELSE [u \in {"u1"} |-> history]
    IN  /\ isVercel = (mode # "file")
        /\ redis = (mode = "redis")
        /\ remote = store
        /\ file = IF mode = "file" THEN stored ELSE <<>>
        /\ db = IF mode = "file" THEN stored ELSE <<>>
        /\ sessionArtworks = <<>>
        /\ calls = [p \in Procs |-> IdleCall]
        /\ serial = 0
        /\ out = NoReturn
        /\ budget = [failures |-> 0, ms |-> 0, removes |-> 0, hit |-> {}]
        /\ returned = [u \in Users |-> {}]

\* The same, the remote store holding the persisted history.
StoreLoaded(mode, history) ==
    StoreLoadedWith(mode, history,
                    IF mode = "redis" /\ history # <<>>
                    THEN [u \in {"u1"} |-> Stringify(history)]
                    ELSE <<>>)

\* Invocations are interchangeable: a new call takes the lowest free slot.
Free(p) ==
    /\ calls[p].pc = "idle"
    /\ \A q \in Procs : q < p => calls[q].pc # "idle"

\* One millisecond passes.
Tick ==
    /\ budget.ms < MaxMs
    /\ now' = now + 1
    /\ budget' = [budget EXCEPT !.ms = @ + 1]
    /\ out' = NoReturn
    /\ UNCHANGED <<admissionVars, requests>>
    /\ UNCHANGED <<isVercel, redis, remote, sessionArtworks, db, file, calls,
                   serial, returned>>

\* addArtwork(userId, artworkData) up to its first await, or to its return
\* on the file tier (lines 101-122 and 140-151).  writeDatabase rewrites the
\* file, except on Vercel.
AddStart(p, userId, songs, maxAdds) ==
    /\ Free(p)
    /\ serial < maxAdds
    /\ serial' = serial + 1
    /\ LET newArtwork == [id |-> now, timestamp |-> now, url |-> serial + 1,
                          songs |-> songs]
       IN  IF isVercel /\ redis
           THEN /\ calls' = [calls EXCEPT ![p] =
                               [IdleCall EXCEPT !.op = "add", !.pc = "get",
                                                !.userId = userId,
                                                !.artwork = newArtwork]]
                /\ out' = NoReturn
                /\ UNCHANGED <<db, file, returned>>
           ELSE /\ db' = MapSet(db, userId,
                                Unshifted(FileArtworks(db, userId), newArtwork))
                /\ file' = IF isVercel THEN file ELSE db'
                /\ out' = ReturnArtwork(p, "add", userId, newArtwork)
                /\ UNCHANGED calls
                /\ returned' = [returned EXCEPT ![userId] = @ \cup {newArtwork}]
    /\ UNCHANGED admissionVars
    /\ UNCHANGED <<now, isVercel, redis, remote, sessionArtworks, budget>>

\* The redis.get inside addArtwork's getUserArtworks settles; addArtwork
\* builds the new history and issues redis.set (lines 119-122).
AddRead(p, answered) ==
    /\ calls[p].op = "add" /\ calls[p].pc = "get"
    /\ answered \/ budget.failures < MaxFailures
    /\ budget' = IF answered THEN budget
                 ELSE [budget EXCEPT !.failures = @ + 1,
                                     !.hit = @ \cup {calls[p].artwork.url}]
    /\ LET c == calls[p]
           existingArtworks ==
               RemoteArtworks(answered, remote, sessionArtworks, c.userId)
           limitedArtworks == Slice(<<c.artwork>> \o existingArtworks)
       IN  calls' = [calls EXCEPT ![p] =
                        [c EXCEPT !.pc = "set",
                                  !.pending = Stringify(limitedArtworks)]]
    /\ UNCHANGED <<admissionVars, requests>>
    /\ UNCHANGED <<now, isVercel, redis, remote, sessionArtworks, db, file,
                   serial, out, returned>>

\* An append that hands a rejected redis.set on to its caller.
AddSettledSurfaces(p, c, answered) ==
    IF answered THEN ReturnArtwork(p, "add", c.userId, c.artwork)
    ELSE Threw(p, "add", c.userId)

\* What addArtwork settles with on the remote tier: return newArtwork, on
\* line 123 and, from the catch block, on line 138.
AddSettled(p, c, answered) == ReturnArtwork(p, "add", c.userId, c.artwork)

\* The redis.set settles.  Resolved: addArtwork returns (line 123).
\* Rejected: the catch block stores the artwork in the fallback map (lines
\* 124-138); a rejected set may or may not have reached the store.
AddWrite(p, answered, applied) ==
    /\ calls[p].op = "add" /\ calls[p].pc = "set"
    /\ answered => applied
    /\ answered \/ budget.failures < MaxFailures
    /\ budget' = IF answered THEN budget
                 ELSE [budget EXCEPT !.failures = @ + 1,
                                     !.hit = @ \cup {calls[p].artwork.url}]
    /\ LET c == calls[p]
       IN  /\ remote' = IF applied THEN MapSet(remote, c.userId, c.pending)
                        ELSE remote
           /\ sessionArtworks' =
                 IF answered THEN sessionArtworks
                 ELSE MapSet(sessionArtworks, c.userId,
                             Unshifted(FallbackArtworks(sessionArtworks, c.userId),
                                       c.artwork))
           /\ calls' = [calls EXCEPT ![p] = IdleCall]
           /\ out' = AddSettled(p, c, answered)
           /\ returned' = [returned EXCEPT ![c.userId] = @ \cup {c.artwork}]
    /\ UNCHANGED admissionVars
    /\ UNCHANGED <<now, isVercel, redis, db, file, serial>>

\* getUserArtworks(userId) up to its await, or to its return on the file
\* tier (lines 154-166 and 183-187).
ListStart(p, userId) ==
    /\ Free(p)
    /\ IF isVercel /\ redis
       THEN /\ calls' = [calls EXCEPT ![p] =
                           [IdleCall EXCEPT !.op = "list", !.pc = "get",
                                            !.userId = userId]]
            /\ out' = NoReturn
       ELSE /\ out' = ReturnList(p, "list", userId, FileArtworks(db, userId))
            /\ UNCHANGED calls
    /\ UNCHANGED <<admissionVars, requests>>
    /\ UNCHANGED <<now, isVercel, redis, remote, sessionArtworks, db, file,
                   serial, budget, returned>>

\* The redis.get of getUserArtworks settles (lines 166-182).
ListRead(p, answered) ==
    /\ calls[p].op = "list" /\ calls[p].pc = "get"
    /\ answered \/ budget.failures < MaxFailures
    /\ budget' = IF answered THEN budget
                 ELSE [budget EXCEPT !.failures = @ + 1]
    /\ LET c == calls[p]
       IN  /\ calls' = [calls EXCEPT ![p] = IdleCall]
           /\ out' = ReturnList(p, "list", c.userId,
                                RemoteArtworks(answered, remote,
                                               sessionArtworks, c.userId))
    /\ UNCHANGED <<admissionVars, requests>>
    /\ UNCHANGED <<now, isVercel, redis, remote, sessionArtworks, db, file,
                   serial, returned>>

\* getUserStats(userId) up to the await of getUserArtworks, or to its return
\* on the file tier (lines 190-206).
StatsStart(p, userId) ==
    /\ Free(p)
    /\ IF isVercel /\ redis
       THEN /\ calls' = [calls EXCEPT ![p] =
                           [IdleCall EXCEPT !.op = "stats", !.pc = "get",
                                            !.userId = userId]]
            /\ out' = NoReturn
       ELSE /\ out' = ReturnStats(p, "stats", userId,
                                  Stats(FileArtworks(db, userId)))
            /\ UNCHANGED calls
    /\ UNCHANGED <<admissionVars, requests>>
    /\ UNCHANGED <<now, isVercel, redis, remote, sessionArtworks, db, file,
                   serial, budget, returned>>

\* The redis.get of getUserStats's getUserArtworks settles.
StatsRead(p, answered) ==
    /\ calls[p].op = "stats" /\ calls[p].pc = "get"
    /\ answered \/ budget.failures < MaxFailures
    /\ budget' = IF answered THEN budget
                 ELSE [budget EXCEPT !.failures = @ + 1]
    /\ LET c == calls[p]
       IN  /\ calls' = [calls EXCEPT ![p] = IdleCall]
           /\ out' = ReturnStats(p, "stats", c.userId,
                                 Stats(RemoteArtworks(answered, remote,
                                                      sessionArtworks,
                                                      c.userId)))
    /\ UNCHANGED <<admissionVars, requests>>
    /\ UNCHANGED <<now, isVercel, redis, remote, sessionArtworks, db, file,
                   serial, returned>>

\* deleteArtwork(userId, artworkId) (lines 208-238).  kv is declared nowhere
\* in the module: on Vercel evaluating it throws a ReferenceError; locally
\* isVercel && kv short-circuits and the file branch runs.
Delete(p, userId, artworkId) ==
    /\ Free(p)
    /\ IF isVercel
       THEN /\ out' = Threw(p, "delete", userId)
            /\ UNCHANGED <<db, file, budget>>
       ELSE IF userId \notin DOMAIN db
       THEN /\ out' = ReturnBool(p, "delete", userId, FALSE)
            /\ UNCHANGED <<db, file, budget>>
       ELSE LET filtered == WithoutId(db[userId], artworkId)
                removed == Len(filtered) < Len(db[userId])
            IN  /\ db' = MapSet(db, userId, filtered)
                /\ file' = IF removed THEN db' ELSE file
                /\ out' = ReturnBool(p, "delete", userId, removed)
                /\ budget' = IF removed THEN [budget EXCEPT !.removes = 1]
                             ELSE budget
    /\ UNCHANGED admissionVars
    /\ UNCHANGED <<now, isVercel, redis, remote, sessionArtworks, calls,
                   serial, returned>>

---------------------------------------------------------------------------
(* router.post('/generate-image'): each request runs the handler, one      *)
(* synchronous stretch per action.  A request records the decision its     *)
(* check returned, the response sent, and which outside parties its        *)
(* handler has called: catalog (api.spotify.com), openai (chat and image   *)
(* generation), stored (addArtwork).                                       *)

Reqs == 1..3

NoBody == [error |-> ""]

NoRequest ==
    [pc |-> "none", accessToken |-> FALSE, rateLimitCheck |-> AllowedDecision,
     status |-> 0, body |-> NoBody, catalog |-> FALSE, openai |-> FALSE,
     stored |-> FALSE, userId |-> "", proc |-> 0]

\* A handler whose 429 branch sends the response but does not return.
AfterCheckFallsThrough(rateLimitCheck, promptGiven, accessToken) ==
    IF ~promptGiven
    THEN [pc |-> "done", status |-> 400,
          body |-> [error |-> "Prompt is required and cannot be empty."]]
    ELSE [pc |-> IF accessToken THEN "audioFeatures" ELSE "promptData",
          status |-> IF rateLimitCheck.allowed THEN 0 ELSE 429,
          body |-> IF rateLimitCheck.allowed THEN NoBody
                   ELSE [error |-> rateLimitCheck.message,
                         reason |-> rateLimitCheck.reason,
                         retryAfter |-> rateLimitCheck.retryAfter]]

\* Lines 988-999: where the handler stands, and what it has sent, once the
\* check has returned and the prompt has been validated.
AfterCheck(rateLimitCheck, promptGiven, accessToken) ==
    IF ~rateLimitCheck.allowed
    THEN [pc |-> "done", status |-> 429,
          body |-> [error |-> rateLimitCheck.message,
                    reason |-> rateLimitCheck.reason,
                    retryAfter |-> rateLimitCheck.retryAfter]]
    ELSE IF ~promptGiven
    THEN [pc |-> "done", status |-> 400,
          body |-> [error |-> "Prompt is required and cannot be empty."]]
    ELSE [pc |-> IF accessToken THEN "audioFeatures" ELSE "promptData",
          status |-> 0, body |-> NoBody]

---------------------------------------------------------------------------
(* Observations.  last is the checkRateLimit call made in the current      *)
(* synchronous stretch, if any: it is forgotten as soon as time passes or  *)
(* the reaper runs.  hist[k] follows a session key for as long as each of  *)
(* its checks came at least COOLDOWN_PERIOD after the previous one, up to  *)
(* its MaxChecks-th check: n is the number of checks made, prevAt the      *)
(* instant of the latest, reaped whether the reaper has deleted the key's  *)
(* record since its first check.                                           *)

NoCheck == [key |-> "", result |-> AllowedDecision]

NoHist == [n |-> 0, prevAt |-> 0, reaped |-> FALSE]

Untracked == [n |-> -1, prevAt |-> 0, reaped |-> FALSE]

\* hist[k] after a check on k at instant t
Checked(h, t) ==
    IF h.n = -1 \/ h.n >= MaxChecks THEN Untracked
    ELSE IF h.n > 0 /\ t - h.prevAt < COOLDOWN_PERIOD THEN Untracked
    ELSE [n |-> h.n + 1, prevAt |-> t, reaped |-> h.reaped]

---------------------------------------------------------------------------
(* The admission controller as a state machine *)

AdmissionLoaded ==
    /\ now = StartTime
    /\ nextReap = StartTime + REAP_PERIOD
    /\ rateLimitMap = <<>>
    /\ last = NoCheck
    /\ hist = [k \in Keys |-> NoHist]
    /\ fineUsed = 0
    /\ unreaped = <<>>
    /\ requests = [r \in Reqs |-> NoRequest]

InitAdmission ==
    /\ AdmissionLoaded
    /\ StoreLoaded("file", <<>>)

\* Time passes.  The interval timer fires when it is due, so the clock does
\* not pass nextReap before ReaperTick has run.
Advance ==
    /\ now < nextReap
    /\ \/ /\ fineUsed < MaxFine
          /\ \E d \in FineDeltas :
                /\ now + d < nextReap
                /\ now + d <= MaxTime
                /\ now' = now + d
          /\ fineUsed' = fineUsed + 1
       \/ /\ nextReap <= MaxTime
          /\ now' = nextReap
          /\ fineUsed' = fineUsed
    /\ last' = NoCheck
    /\ UNCHANGED <<nextReap, rateLimitMap, hist, unreaped>>
    /\ UNCHANGED <<storeVars, requests>>

ReaperTick ==
    /\ now = nextReap
    /\ rateLimitMap' = Reaped(rateLimitMap, now)
    /\ nextReap' = now + REAP_PERIOD
    /\ hist' = [k \in Keys |->
                  IF /\ k \in DOMAIN rateLimitMap
                     /\ Stale(rateLimitMap[k], now)
                     /\ hist[k].n > 0
                  THEN [hist[k] EXCEPT !.reaped = TRUE]
                  ELSE hist[k]]
    /\ last' = NoCheck
    /\ UNCHANGED <<now, fineUsed, unreaped>>
    /\ UNCHANGED <<storeVars, requests>>

Check(sessionId) ==
    /\ LET r == checkRateLimit(rateLimitMap, sessionId, now)
       IN  /\ rateLimitMap' = r.map
           /\ last' = [key |-> sessionId, result |-> r.result]
    /\ hist' = [hist EXCEPT ![sessionId] = Checked(hist[sessionId], now)]
    /\ unreaped' = checkRateLimit(unreaped, sessionId, now).map
    /\ UNCHANGED <<now, nextReap, fineUsed>>
    /\ UNCHANGED storeVars

NextAdmission ==
    \/ Advance
    \/ ReaperTick
    \/ \E k \in Keys : Check(k) /\ UNCHANGED requests

SpecAdmission == InitAdmission /\ [][NextAdmission]_vars

Spec == SpecAdmission

\* Time passes until the reaper is due next.
AwaitReaper ==
    /\ now < nextReap
    /\ nextReap <= MaxTime
    /\ now' = nextReap
    /\ last' = NoCheck
    /\ UNCHANGED <<nextReap, rateLimitMap, hist, fineUsed, unreaped>>
    /\ UNCHANGED <<storeVars, requests>>

\* The controller with its timers at work, observed at the instants at
\* which the reaper is due: time does pass, and the interval timer does
\* call the reaper when it is due.
NextReaping ==
    \/ AwaitReaper
    \/ ReaperTick
    \/ \E k \in Keys : Check(k) /\ UNCHANGED requests

SpecReaping ==
    /\ InitAdmission
    /\ [][NextReaping]_vars
    /\ WF_vars(AwaitReaper)
    /\ WF_vars(ReaperTick)

---------------------------------------------------------------------------
(* The store as a state machine: concurrent invocations of its functions,  *)
(* remote calls that may fail, and the three deployment modes.             *)

\* The owners whose calls are explored: both where the whole db object is
\* shared and rewritten at once, one on the remote tier, where each owner
\* has a key and a fallback entry of its own.
Owners == IF isVercel /\ redis THEN {"u1"} ELSE Users

InitStore ==
    /\ AdmissionLoaded
    /\ \E mode \in {"file", "redis", "memory"} :
       \E n \in {0, HISTORY_CAP - 1} :
          StoreLoaded(mode, Persisted(n))

NextStore ==
    \/ Tick
    \/ \E p \in Procs, u \in Owners :
          AddStart(p, u, <<"A", "B">>, MaxAdds) /\ UNCHANGED requests
    \/ \E p \in Procs, answered \in BOOLEAN : AddRead(p, answered)
    \/ \E p \in Procs, answered \in BOOLEAN, applied \in BOOLEAN :
          AddWrite(p, answered, applied) /\ UNCHANGED requests
    \/ \E p \in Procs, u \in Owners : ListStart(p, u)
    \/ \E p \in Procs, answered \in BOOLEAN : ListRead(p, answered)
    \/ \E p \in Procs, u \in Owners, id \in {now, StartTime - 1} :
          Delete(p, u, id) /\ UNCHANGED requests

SpecStore == InitStore /\ [][NextStore]_vars

---------------------------------------------------------------------------
(* One caller that awaits each call before making the next, with a remote  *)
(* backend that answers every call: appends and lists for one owner, past  *)
(* the cap of the history.                                                 *)

InitFill ==
    /\ AdmissionLoaded
    /\ \E mode \in {"file", "redis", "memory"} : StoreLoaded(mode, <<>>)

NextFill ==
    \/ Tick
    \/ AddStart(1, "u1", <<"A", "B">>, FillAdds) /\ UNCHANGED requests
    \/ AddRead(1, TRUE)
    \/ AddWrite(1, TRUE, TRUE) /\ UNCHANGED requests
    \/ ListStart(1, "u1")
    \/ ListRead(1, TRUE)

SpecFill == InitFill /\ [][NextFill]_vars

---------------------------------------------------------------------------
(* One caller that awaits each call before making the next, with a remote  *)
(* backend that may fail any call and may hold, for the owner, a payload    *)
(* that is not the text of an array (left by another writer).              *)

InitOutage ==
    /\ AdmissionLoaded
    /\ \/ \E mode \in {"file", "memory"} : StoreLoaded(mode, <<>>)
       \/ \E payload \in {NullValue, Garbage, NotArray} :
             StoreLoadedWith("redis", <<>>,
                             IF payload = NullValue THEN <<>>
                             ELSE [u \in {"u1"} |-> payload])

NextOutage ==
    \/ Tick
    \/ AddStart(1, "u1", <<"A", "B">>, MaxAdds) /\ UNCHANGED requests
    \/ \E answered \in BOOLEAN : AddRead(1, answered)
    \/ \E answered \in BOOLEAN, applied \in BOOLEAN :
          AddWrite(1, answered, applied) /\ UNCHANGED requests
    \/ ListStart(1, "u1")
    \/ \E answered \in BOOLEAN : ListRead(1, answered)

SpecOutage == InitOutage /\ [][NextOutage]_vars

---------------------------------------------------------------------------
(* Statistics read while artworks of either song list are being appended,  *)
(* concurrently, for one owner.                                            *)

InitStats ==
    /\ AdmissionLoaded
    /\ \E mode \in {"file", "redis", "memory"} : StoreLoaded(mode, <<>>)

NextStats ==
    \/ Tick
    \/ \E p \in Procs, songs \in SongLists :
          AddStart(p, "u1", songs, MaxAdds) /\ UNCHANGED requests
    \/ \E p \in Procs, answered \in BOOLEAN : AddRead(p, answered)
    \/ \E p \in Procs, answered \in BOOLEAN, applied \in BOOLEAN :
          AddWrite(p, answered, applied) /\ UNCHANGED requests
    \/ \E p \in Procs : StatsStart(p, "u1")
    \/ \E p \in Procs, answered \in BOOLEAN : StatsRead(p, answered)

SpecStats == InitStats /\ [][NextStats]_vars

---------------------------------------------------------------------------
(* The /generate-image endpoint as a state machine: requests from one      *)
(* client session arrive while earlier ones are still being served.  The   *)
(* exploration ends before the reaper is first due.                        *)

Pauses == {1, 10000, COOLDOWN_PERIOD}

Sent(q, status, body) ==
    [q EXCEPT !.pc = "done", !.status = status, !.body = body]

\* Lines 981-999: a request arrives; the handler runs to its first await or
\* to an early response.  promptGiven: prompt is a string that holds a song.
Post(r, sessionId, promptGiven, accessToken) ==
    /\ requests[r].pc = "none"
    /\ \A q \in Reqs : q < r => requests[q].pc # "none"
    /\ Check(sessionId)
    /\ LET rateLimitCheck == checkRateLimit(rateLimitMap, sessionId, now).result
           a == AfterCheck(rateLimitCheck, promptGiven, accessToken)
       IN  requests' = [requests EXCEPT ![r] =
                           [NoRequest EXCEPT !.pc = a.pc,
                                             !.accessToken = accessToken,
                                             !.rateLimitCheck = rateLimitCheck,
                                             !.status = a.status,
                                             !.body = a.body]]

\* getSpotifyAudioFeatures settles (line 1009): it calls the catalog and
\* resolves to a list, empty when the calls fail.
AudioFeatures(r) ==
    /\ requests[r].pc = "audioFeatures"
    /\ requests' = [requests EXCEPT ![r].pc = "lyricsData",
                                    ![r].catalog = TRUE]
    /\ UNCHANGED <<now, admissionVars, storeVars>>

\* getSongLyrics settles (line 1010), likewise.
LyricsData(r) ==
    /\ requests[r].pc = "lyricsData"
    /\ requests' = [requests EXCEPT ![r].pc = "promptData",
                                    ![r].catalog = TRUE]
    /\ UNCHANGED <<now, admissionVars, storeVars>>

\* createUnifiedPrompt settles (line 1013): analyzeSongTitles asks the chat
\* model and falls back to a default analysis when that fails.
PromptData(r) ==
    /\ requests[r].pc = "promptData"
    /\ requests' = [requests EXCEPT ![r].pc = "response",
                                    ![r].openai = TRUE]
    /\ UNCHANGED <<now, admissionVars, storeVars>>

\* openai.images.generate settles (lines 1020-1025); a rejection lands in
\* the catch block (lines 1049-1052).
Response(r, ok) ==
    /\ requests[r].pc = "response"
    /\ requests' = [requests EXCEPT ![r] =
                       IF ok
                       THEN [requests[r] EXCEPT !.pc = "userProfile",
                                                !.openai = TRUE]
                       ELSE Sent([requests[r] EXCEPT !.openai = TRUE], 500,
                                 [error |-> "Failed to generate image"])]
    /\ UNCHANGED <<now, admissionVars, storeVars>>

\* getSpotifyUserProfile settles (lines 1028-1029): null unless the token
\* is accepted.
UserProfile(r, ok) ==
    /\ requests[r].pc = "userProfile"
    /\ ok => requests[r].accessToken
    /\ requests' = [requests EXCEPT ![r].pc = "addArtwork",
                                    ![r].catalog = TRUE,
                                    ![r].userId = IF ok THEN "u1"
                                                  ELSE "anonymous"]
    /\ UNCHANGED <<now, admissionVars, storeVars>>

\* The 200 response of lines 1043-1048
Saved(q, savedArtwork) ==
    Sent(q, 200, [url |-> savedArtwork.url, artworkId |-> savedArtwork.id,
                  userId |-> q.userId])

\* addArtwork is called (line 1039); on the file tier it returns at once.
SaveArtwork(r, p) ==
    /\ requests[r].pc = "addArtwork"
    /\ AddStart(p, requests[r].userId, <<"A", "B">>, MaxAdds)
    /\ LET q == [requests[r] EXCEPT !.stored = TRUE, !.proc = p]
       IN  requests' = [requests EXCEPT ![r] =
                           IF isVercel /\ redis
                           THEN [q EXCEPT !.pc = "savedArtwork"]
                           ELSE Saved(q, out'.artwork)]

\* addArtwork settles on the remote tier; the handler responds.
SavedArtwork(r, answered, applied) ==
    /\ requests[r].pc = "savedArtwork"
    /\ AddWrite(requests[r].proc, answered, applied)
    /\ requests' = [requests EXCEPT ![r] = Saved(requests[r], out'.artwork)]

\* Time passes between two steps.
Elapse(d) ==
    /\ budget.ms < MaxMs
    /\ now + d < nextReap
    /\ now' = now + d
    /\ budget' = [budget EXCEPT !.ms = @ + 1]
    /\ out' = NoReturn
    /\ last' = NoCheck
    /\ UNCHANGED <<nextReap, rateLimitMap, hist, fineUsed, unreaped, requests>>
    /\ UNCHANGED <<isVercel, redis, remote, sessionArtworks, db, file, calls,
                   serial, returned>>

InitEndpoint ==
    /\ AdmissionLoaded
    /\ \E mode \in {"file", "redis"} : StoreLoaded(mode, <<>>)

NextEndpoint ==
    \/ \E d \in Pauses : Elapse(d)
    \/ \E r \in Reqs, k \in Keys, promptGiven \in BOOLEAN,
          accessToken \in BOOLEAN : Post(r, k, promptGiven, accessToken)
    \/ \E r \in Reqs : AudioFeatures(r)
    \/ \E r \in Reqs : LyricsData(r)
    \/ \E r \in Reqs : PromptData(r)
    \/ \E r \in Reqs, ok \in BOOLEAN : Response(r, ok)
    \/ \E r \in Reqs, ok \in BOOLEAN : UserProfile(r, ok)
    \/ \E r \in Reqs, p \in Procs : SaveArtwork(r, p)
    \/ \E p \in Procs, answered \in BOOLEAN : AddRead(p, answered)
    \/ \E r \in Reqs, answered \in BOOLEAN, applied \in BOOLEAN :
          SavedArtwork(r, answered, applied)

SpecEndpoint == InitEndpoint /\ [][NextEndpoint]_vars

---------------------------------------------------------------------------
(* router.delete('/artwork/:artworkId') as a state machine: requests to    *)
(* delete artworks of histories that an earlier process persisted, in each *)
(* deployment mode.                                                        *)

\* Lines 1108-1112: the response chosen by if (success)
DeleteAnswer(success) ==
    IF success THEN [status |-> 200, body |-> [success |-> TRUE]]
    ELSE [status |-> 404, body |-> [error |-> "Artwork not found"]]

\* Line 1106: success = deleteArtwork(userId, artworkId), without await.
\* deleteArtwork is an async function, so success is the promise it
\* returns, and if (success) tests that object: it is truthy whatever the
\* promise settles with.
Success(settled) == TRUE

\* Lines 1094-1103: a request arrives; without an access token it is
\* answered 400, otherwise the handler awaits getSpotifyUserProfile.
DeleteArtworkRequest(r, accessToken) ==
    /\ requests[r].pc = "none"
    /\ \A q \in Reqs : q < r => requests[q].pc # "none"
    /\ requests' = [requests EXCEPT ![r] =
                       IF accessToken
                       THEN [NoRequest EXCEPT !.pc = "deleteProfile",
                                              !.accessToken = TRUE]
                       ELSE Sent(NoRequest, 400,
                                 [error |-> "Access token required"])]
    /\ UNCHANGED <<now, admissionVars, storeVars>>

\* Lines 1103-1112: getSpotifyUserProfile settles (null unless the token is
\* accepted); the handler calls deleteArtwork, which runs to its end or to
\* its throw within the call, and responds.
DeleteArtworkRoute(r, p, ok, artworkId) ==
    /\ requests[r].pc = "deleteProfile"
    /\ LET userId == IF ok THEN "u1" ELSE "anonymous"
       IN  /\ Delete(p, userId, artworkId)
           /\ LET answer == DeleteAnswer(Success(out'))
              IN  requests' = [requests EXCEPT ![r] =
                     Sent([requests[r] EXCEPT !.catalog = TRUE,
                                              !.userId = userId,
                                              !.proc = p],
                          answer.status, answer.body)]

\* The histories that data/artworks.json or the remote store may hold
RemovalHistories == {0, 2}

\* The artwork ids that delete requests name: the two persisted ones and
\* one that no history holds
RequestedIds == {StartTime - 1, StartTime - 2, StartTime}

InitRemoval ==
    /\ AdmissionLoaded
    /\ \E mode \in {"file", "redis", "memory"} :
       \E n \in RemovalHistories :
          StoreLoaded(mode, Persisted(n))

NextRemoval ==
    \/ \E r \in Reqs, accessToken \in BOOLEAN :
          DeleteArtworkRequest(r, accessToken)
    \/ \E r \in Reqs, p \in Procs, ok \in BOOLEAN, id \in RequestedIds :
          DeleteArtworkRoute(r, p, ok, id)

SpecRemoval == InitRemoval /\ [][NextRemoval]_vars

---------------------------------------------------------------------------
(* Claims about the admission controller, checked under SpecAdmission *)

Rejected(reason) ==
    /\ last.key \in Keys
    /\ ~last.result.allowed
    /\ last.result.reason = reason

\* C1 as stated: a session key whose checks each come at least 30 s after
\* the previous one gets Allowed for each of its first 10 checks, and its
\* 11th check is Rejected{session_limit} with retryAfter = 30 minutes,
\* however long after the 10th it is made.
C1_EleventhAlwaysRejected ==
    \A k \in Keys :
        (last.key = k /\ hist[k].n >= 1) =>
            /\ hist[k].n <= 10 => last.result.allowed
            /\ hist[k].n = 11 =>
                  /\ ~last.result.allowed
                  /\ last.result.reason = "session_limit"
                  /\ last.result.retryAfter = 1800000

\* C1 as amended: the first 10 such checks are Allowed, and the 11th is
\* Rejected{session_limit} with retryAfter = 30 minutes provided the reaper
\* has not deleted the key's record since the key's first check.
C1_EleventhRejectedUnlessReaped ==
    \A k \in Keys :
        (last.key = k /\ hist[k].n >= 1) =>
            /\ hist[k].n <= 10 => last.result.allowed
            /\ (hist[k].n = 11 /\ ~hist[k].reaped) =>
                  /\ ~last.result.allowed
                  /\ last.result.reason = "session_limit"
                  /\ last.result.retryAfter = 1800000

\* C1 witness: an 11th well-spaced check, made more than 30 minutes after
\* the 10th while the record still exists, has been rejected.
C1_Witness ==
    \E k \in Keys :
        /\ last.key = k
        /\ hist[k].n = 11
        /\ ~hist[k].reaped
        /\ Rejected("session_limit")
        /\ k \in DOMAIN rateLimitMap
        /\ now - rateLimitMap[k].lastRequest > 1800000

\* C2: a check on a record with totalRequests < 10 made less than 30000 ms
\* after lastRequest is Rejected{cooldown} with retryAfter = 30000 minus the
\* time elapsed; 10 s after an Allowed check that is 20000.
C2_CooldownRetryAfter ==
    [][\A k \in Keys :
          Check(k) =>
            LET userData == UserData(rateLimitMap, k)
                elapsed == now - userData.lastRequest
            IN  (userData.totalRequests < 10 /\ elapsed < 30000) =>
                  /\ ~last'.result.allowed
                  /\ last'.result.reason = "cooldown"
                  /\ last'.result.retryAfter = 30000 - elapsed
                  /\ elapsed = 10000 => last'.result.retryAfter = 20000]_vars

\* C2 witness: a check 10 s after an Allowed one was Rejected{cooldown}
\* with retryAfter 20000.
C2_Witness ==
    \E k \in Keys :
        /\ last.key = k
        /\ Rejected("cooldown")
        /\ last.result.retryAfter = 20000
        /\ k \in DOMAIN rateLimitMap
        /\ rateLimitMap[k].totalRequests < 10
        /\ now - rateLimitMap[k].lastRequest = 10000

\* C4: the policies are evaluated in the order session cap, cooldown,
\* per-minute window, and the first violated one gives the reason.
C4_FirstViolationWins ==
    [][\A k \in Keys :
          Check(k) =>
            LET userData == UserData(rateLimitMap, k)
                cap == userData.totalRequests >= 10
                cool == now - userData.lastRequest < 30000
                window == Cardinality({i \in 1..Len(userData.requests) :
                                 now - userData.requests[i] < 60000}) >= 3
                d == last'.result
            IN  /\ cap => (~d.allowed /\ d.reason = "session_limit")
                /\ (~cap /\ cool) => (~d.allowed /\ d.reason = "cooldown")
                /\ (~cap /\ ~cool /\ window) =>
                       (~d.allowed /\ d.reason = "rate_limit")
                /\ (~cap /\ ~cool /\ ~window) => d.allowed]_vars

\* C4 witness: a check on a capped record inside its cooldown was rejected
\* for the session cap.
C4_Witness ==
    \E k \in Keys :
        /\ last.key = k
        /\ Rejected("session_limit")
        /\ k \in DOMAIN rateLimitMap
        /\ rateLimitMap[k].totalRequests >= 10
        /\ now - rateLimitMap[k].lastRequest < 30000

\* C5: an Allowed check at instant now leaves the key's record with
\* totalRequests one greater, lastRequest = now, and requestTimestamps equal
\* to the previous ones with now appended and every entry t with
\* now - t >= 120000 removed.
C5_AllowedUpdate ==
    [][\A k \in Keys :
          (Check(k) /\ last'.result.allowed) =>
            LET before == UserData(rateLimitMap, k)
                appended == before.requests \o <<now>>
            IN  /\ k \in DOMAIN rateLimitMap'
                /\ rateLimitMap'[k].totalRequests = before.totalRequests + 1
                /\ rateLimitMap'[k].lastRequest = now
                /\ rateLimitMap'[k].requests =
                      SelectSeq(appended, LAMBDA t : ~(now - t >= 120000))
                /\ \A x \in (DOMAIN rateLimitMap) \ {k} :
                      /\ x \in DOMAIN rateLimitMap'
                      /\ rateLimitMap'[x] = rateLimitMap[x]]_vars

\* C5 witness: an Allowed check has just pruned an old timestamp: the
\* record counts three requests and keeps two timestamps.
C5_Witness ==
    \E k \in Keys :
        /\ last.key = k
        /\ last.result.allowed
        /\ k \in DOMAIN rateLimitMap
        /\ rateLimitMap[k].lastRequest = now
        /\ rateLimitMap[k].totalRequests = 3
        /\ Len(rateLimitMap[k].requests) = 2

\* C6: a Rejected check changes nothing in the session map.
C6_RejectedChangesNothing ==
    [][\A k \in Keys :
          (Check(k) /\ ~last'.result.allowed) =>
              rateLimitMap' = rateLimitMap]_vars

\* C6 witness: a check has been rejected for the cooldown, well after the
\* Allowed check that started it.
C6_Witness ==
    \E k \in Keys :
        /\ last.key = k
        /\ Rejected("cooldown")
        /\ k \in DOMAIN rateLimitMap
        /\ now - rateLimitMap[k].lastRequest = 10000

---------------------------------------------------------------------------
(* Claims about the endpoint and the store *)

\* What list(ownerId) returns when the backend in use answers
ListNow(userId) ==
    IF isVercel /\ redis
    THEN RemoteArtworks(TRUE, remote, sessionArtworks, userId)
    ELSE FileArtworks(db, userId)

\* No artwork stands before one that was created later.
NewestFirst(artworks) ==
    \A i, j \in 1..Len(artworks) :
        i < j => artworks[i].timestamp >= artworks[j].timestamp

Quiet == \A p \in Procs : calls[p].pc = "idle"

\* C7: when the admission check of a generation request is Rejected, the
\* endpoint answers 429 with the decision's message, reason and retryAfter,
\* and for that request neither the music catalog nor the image provider is
\* ever called and nothing is ever appended to the store.
C7_RejectedAnswers429Only ==
    \A r \in Reqs :
        LET q == requests[r]
        IN  (q.pc # "none" /\ ~q.rateLimitCheck.allowed) =>
                /\ q.pc = "done"
                /\ q.status = 429
                /\ q.body = [error |-> q.rateLimitCheck.message,
                             reason |-> q.rateLimitCheck.reason,
                             retryAfter |-> q.rateLimitCheck.retryAfter]
                /\ ~q.catalog /\ ~q.openai /\ ~q.stored

\* C7 witness: a request was rejected 10 s into the cooldown opened by a
\* request that has since been served.
C7_Witness ==
    \E r, r2 \in Reqs :
        /\ requests[r].status = 429
        /\ requests[r].body.reason = "cooldown"
        /\ requests[r].body.retryAfter = 20000
        /\ requests[r2].status = 200
        /\ requests[r2].stored

\* C8: append puts the new record at the front of the owner's history,
\* truncates the history to 50 entries and returns the new record; after 51
\* appends for one owner, list returns exactly 50 records, newest first, and
\* the first-appended record is absent.  (Calls made one after the other,
\* backend answering: SpecFill.)
C8_AppendFrontCapReturn ==
    LET history == ListNow("u1")
    IN  /\ out.op = "add" =>
              /\ out.kind = "artwork"
              /\ out.artwork.url = serial
              /\ Len(history) = (IF serial < 50 THEN serial ELSE 50)
              /\ history[1] = out.artwork
              /\ \A i \in 1..Len(history) : history[i].url = serial + 1 - i
        /\ (out.op = "list" /\ serial = 51) =>
              /\ out.kind = "list"
              /\ Len(out.list) = 50
              /\ NewestFirst(out.list)
              /\ \A i \in 1..Len(out.list) : out.list[i].url # 1
              /\ out.list[50].url = 2

\* C8 witness: on the remote tier, list has returned after the 51st append.
C8_Witness ==
    /\ isVercel /\ redis
    /\ serial = 51
    /\ out.op = "list"
    /\ Len(out.list) = 50
    /\ out.list[1].url = 51

\* C9 as stated: in every reachable state and in every backend tier, each
\* owner's history holds at most 50 records and is ordered newest-first by
\* creation.
C9_CappedNewestFirst ==
    \A u \in Users :
        /\ Len(ListNow(u)) <= 50 /\ NewestFirst(ListNow(u))
        /\ Len(FallbackArtworks(sessionArtworks, u)) <= 50
        /\ NewestFirst(FallbackArtworks(sessionArtworks, u))
        /\ Len(FileArtworks(file, u)) <= 50
        /\ NewestFirst(FileArtworks(file, u))

\* C10 as stated: once n <= 50 appends for an owner have all returned, with
\* no remove and no backend failure, list contains all n records.
C10_NoLostAppend ==
    \A u \in Users :
        (/\ Quiet
         /\ budget.failures = 0
         /\ budget.removes = 0
         /\ Cardinality(returned[u]) <= 50) =>
            \A a \in returned[u] :
                \E i \in 1..Len(ListNow(u)) : ListNow(u)[i] = a

\* Whether artwork a is among artworks
Contains(artworks, a) == \E i \in 1..Len(artworks) : artworks[i] = a

\* C11 as stated: when the remote backend fails during an append, the
\* append returns the new record and a later list for the owner in the same
\* process, with no remove in between, contains that record, whether or not
\* the remote backend answers the list.
C11_FallbackListReflects ==
    (out.op = "list" /\ budget.removes = 0) =>
        /\ out.kind = "list"
        /\ \A a \in returned[out.userId] :
              a.url \in budget.hit => Contains(out.list, a)

\* C12 as stated: list never throws, and returns the empty sequence when the
\* owner has no stored history and when the stored payload is malformed.
C12_MalformedListsEmpty ==
    out.op = "list" =>
        LET payload == RedisGet(remote, out.userId)
            fallback == FallbackArtworks(sessionArtworks, out.userId)
        IN  /\ out.kind = "list"
            /\ (isVercel /\ redis /\ payload = NullValue /\ fallback = <<>>)
                  => out.list = <<>>
            /\ (~(isVercel /\ redis) /\ out.userId \notin DOMAIN db)
                  => out.list = <<>>
            /\ (isVercel /\ redis /\ payload \in {Garbage, NotArray})
                  => out.list = <<>>

\* C12, amended: list never throws; it returns the empty sequence when the
\* owner has no stored history and when the payload parses to something
\* that is not an array; when the payload fails to parse it returns the
\* owner's history in the in-process fallback map, which is empty unless an
\* earlier append fell back to it.
C12_MalformedListsFallback ==
    out.op = "list" =>
        LET payload == RedisGet(remote, out.userId)
            fallback == FallbackArtworks(sessionArtworks, out.userId)
        IN  /\ out.kind = "list"
            /\ (isVercel /\ redis /\ payload = NullValue /\ fallback = <<>>)
                  => out.list = <<>>
            /\ (~(isVercel /\ redis) /\ out.userId \notin DOMAIN db)
                  => out.list = <<>>
            /\ (isVercel /\ redis /\ payload = NotArray)
                  => out.list \in {<<>>, fallback}
            /\ (isVercel /\ redis /\ payload = NotArray
                  /\ budget.failures = 0) => out.list = <<>>
            /\ (isVercel /\ redis /\ payload = Garbage)
                  => out.list = fallback

\* C12 witness: with an unparsable payload in the remote store, list has
\* returned the record that an append had put in the fallback map.
C12_Witness ==
    /\ out.op = "list"
    /\ isVercel /\ redis
    /\ RedisGet(remote, "u1") = Garbage
    /\ Len(out.list) = 1
    /\ out.list = FallbackArtworks(sessionArtworks, "u1")

\* Whether artworks holds a record with this id
Has(artworks, artworkId) ==
    \E i \in 1..Len(artworks) : artworks[i].id = artworkId

\* The ids that remove calls are explored with
RemovedIds == {now, StartTime - 1}

\* C13 as stated: remove(ownerId, artifactId) returns true exactly when the
\* owner's history held a record with that id; list(ownerId) is afterwards
\* the previous history without it, the other records in unchanged order;
\* for an id not in the history it returns false and the list is unchanged.
C13_RemoveContract ==
    [][\A p \in Procs, u \in Users, id \in RemovedIds :
          Delete(p, u, id) =>
              /\ out'.kind = "bool"
              /\ out'.ok = Has(ListNow(u), id)
              /\ ListNow(u)' = WithoutId(ListNow(u), id)]_vars

\* C14 as stated: with a remote backend configured, remove works on the
\* owner's remote history: it removes the record there and returns true if
\* the history holds it, returns false otherwise, and never fails with an
\* error.
C14_RemoteRemove ==
    [][\A p \in Procs, u \in Users, id \in RemovedIds :
          (isVercel /\ redis /\ Delete(p, u, id)) =>
              LET history == RemoteArtworks(TRUE, remote, sessionArtworks, u)
              IN  /\ out'.kind # "throw"
                  /\ out'.kind = "bool" /\ out'.ok = Has(history, id)
                  /\ RemoteArtworks(TRUE, remote', sessionArtworks', u)
                        = WithoutId(history, id)]_vars

\* C15: append and list never surface a remote failure to their caller:
\* whichever remote read or write fails during the call, append returns the
\* new record and list returns a sequence, and neither throws.
C15_NoFailureSurfaced ==
    /\ out.op = "add" =>
          /\ out.kind = "artwork"
          /\ out.artwork.url \in 1..serial
          /\ out.artwork \in returned[out.userId]
    /\ out.op = "list" => out.kind = "list"

\* C15 witness: an append during which a remote call failed has returned
\* its record.
C15_Witness ==
    /\ out.op = "add"
    /\ out.kind = "artwork"
    /\ out.artwork.url \in budget.hit

\* The latest creation time among artworks
Newest(artworks) ==
    CHOOSE t \in {artworks[i].timestamp : i \in 1..Len(artworks)} :
        \A i \in 1..Len(artworks) : artworks[i].timestamp <= t

\* C16 as stated: stats(ownerId) returns count = the length of
\* list(ownerId), distinctSongCount = the number of distinct song names in
\* the records of that history, and mostRecentTimestamp = the timestamp of
\* the newest record, or null when the history is empty.  (Stated for calls
\* during which no remote call has failed.)
C16_StatsOfHistory ==
    (out.op = "stats" /\ budget.failures = 0) =>
        LET history == ListNow(out.userId)
        IN  /\ out.kind = "stats"
            /\ out.stats.totalArtworks = Len(history)
            /\ out.stats.uniqueSongs = Cardinality(UniqueSongs(history))
            /\ out.stats.lastCreated =
                  IF history = <<>> THEN NoTimestamp
                  ELSE [null |-> FALSE, at |-> Newest(history)]

---------------------------------------------------------------------------
(* Claims about the reaper, checked under SpecAdmission *)

\* C17 as stated: reaper timing never changes an admission decision: each
\* check gets the decision it would get had the reaper never run.
C17_ReaperNeverChangesDecision ==
    [][\A k \in Keys :
          Check(k) => Decide(UserData(rateLimitMap, k), now)
                         = Decide(UserData(unreaped, k), now)]_vars

\* C17, amended: the reaper changes no decision other than session_limit:
\* a check that would be Allowed, or rejected for cooldown or rate_limit,
\* had the reaper never run gets that same decision; a check that would be
\* rejected for session_limit gets another decision only when the reaper
\* has deleted the key's record, whose count then restarted.
C17_ReaperChangesOnlySessionLimit ==
    [][\A k \in Keys :
          Check(k) =>
              LET decision == Decide(UserData(rateLimitMap, k), now)
                  without == Decide(UserData(unreaped, k), now)
              IN  \/ decision = without
                  \/ /\ ~without.allowed
                     /\ without.reason = "session_limit"
                     /\ UserData(rateLimitMap, k).totalRequests
                           < UserData(unreaped, k).totalRequests]_vars

\* C17 witness: a check on a key whose record the reaper had deleted was
\* Allowed, as it would have been had the record been kept.
C17_Witness ==
    \E k \in Keys :
        /\ last.key = k /\ last.result.allowed
        /\ k \in DOMAIN rateLimitMap /\ k \in DOMAIN unreaped
        /\ rateLimitMap[k].totalRequests < unreaped[k].totalRequests
        /\ unreaped[k].lastRequest = now

\* C18: checks and reaper ticks on one session key exclude one another and
\* checks on one key are serialized: every change of the key's record is
\* one whole Allowed check on the record as the previous step left it (the
\* count one greater, stamped now, and neither cap nor cooldown violated
\* before, so two checks at one instant are never both Allowed), and a
\* record disappears only whole, by a reaper tick that finds it stale.
C18_ChecksAndReapsSerialized ==
    [][\A k \in Keys :
          LET before == UserData(rateLimitMap, k)
          IN  /\ (k \in DOMAIN rateLimitMap' /\ rateLimitMap'[k] # before) =>
                    /\ rateLimitMap'[k].totalRequests
                          = before.totalRequests + 1
                    /\ rateLimitMap'[k].lastRequest = now
                    /\ before.totalRequests < 10
                    /\ now - before.lastRequest >= 30000
                    /\ now' = now
              /\ (k \in DOMAIN rateLimitMap /\ k \notin DOMAIN rateLimitMap')
                    => /\ now - before.lastRequest > 1800000
                       /\ now' = now]_vars

\* C18 witness: at one instant the reaper has run, a check on a key it had
\* deleted before was Allowed, and a second check on that key was rejected.
C18_Witness ==
    \E k \in Keys :
        /\ nextReap = now + REAP_PERIOD
        /\ last.key = k
        /\ Rejected("cooldown")
        /\ last.result.retryAfter = 30000
        /\ k \in DOMAIN rateLimitMap
        /\ rateLimitMap[k].lastRequest = now
        /\ rateLimitMap[k].totalRequests < unreaped[k].totalRequests

\* C19: a reaper tick at time now removes exactly the records with
\* now - lastRequest > 30 minutes: a record 30 minutes old or less is kept,
\* and every record kept is left as it was.
C19_ReapsExactlyStale ==
    [][ReaperTick =>
          \A k \in DOMAIN rateLimitMap :
              IF now - rateLimitMap[k].lastRequest > 1800000
              THEN k \notin DOMAIN rateLimitMap'
              ELSE /\ k \in DOMAIN rateLimitMap'
                   /\ rateLimitMap'[k] = rateLimitMap[k]]_vars

\* C19 witness: the reaper has just run and kept a record idle for exactly
\* 30 minutes.
C19_Witness ==
    \E k \in DOMAIN rateLimitMap :
        /\ nextReap = now + REAP_PERIOD
        /\ last = NoCheck
        /\ now - rateLimitMap[k].lastRequest = 1800000

\* C20: a session record whose key gets no further Allowed check is
\* eventually removed: once now - lastRequest exceeds 30 minutes the record
\* is deleted (by the next reaper tick), also when the key keeps issuing
\* checks that are Rejected; it stays only if an Allowed check renews it.
\* (For records that go stale while a reaper tick is still within the time
\* explored.)
C20_StaleEventuallyReaped ==
    \A k \in Keys :
        (/\ k \in DOMAIN rateLimitMap
         /\ now - UserData(rateLimitMap, k).lastRequest > 1800000
         /\ nextReap <= MaxTime)
        ~> (\/ k \notin DOMAIN rateLimitMap
            \/ now - UserData(rateLimitMap, k).lastRequest <= 1800000)

\* C20 witness: a record at the cap, idle for more than 30 minutes, whose
\* key has just been Rejected once more, awaits a reaper tick.
C20_Witness ==
    \E k \in Keys :
        /\ k \in DOMAIN rateLimitMap
        /\ now - rateLimitMap[k].lastRequest > 1800000
        /\ nextReap <= MaxTime
        /\ last.key = k
        /\ Rejected("session_limit")

---------------------------------------------------------------------------
(* Claims about the session record, checked under SpecAdmission *)

\* C21 as stated: in every reachable state every instant stored in a
\* record's requestTimestamps lies within the last two minutes of the
\* current time (now - t < 120000), as the clock advances between checks.
C21_TimestampsAlwaysRecent ==
    \A k \in DOMAIN rateLimitMap :
        \A i \in 1..Len(rateLimitMap[k].requests) :
            now - rateLimitMap[k].requests[i] < 120000

\* C21, amended: every instant stored in a record's requestTimestamps lies
\* within the two minutes before the record's latest Allowed check
\* (lastRequest - t < 120000), the latest stored instant being that check;
\* an instant that grows older than two minutes as the clock advances stays
\* stored until the key's next Allowed check or until the record is reaped.
C21_TimestampsRecentAtLastAllowed ==
    \A k \in DOMAIN rateLimitMap :
        LET data == rateLimitMap[k]
        IN  /\ Len(data.requests) >= 1
            /\ data.requests[Len(data.requests)] = data.lastRequest
            /\ data.lastRequest <= now
            /\ \A i \in 1..Len(data.requests) :
                  data.lastRequest - data.requests[i] < 120000

\* C21 witness: a record whose Allowed checks have pruned an instant keeps
\* one that has since grown older than two minutes.
C21_Witness ==
    \E k \in DOMAIN rateLimitMap :
        /\ rateLimitMap[k].totalRequests > Len(rateLimitMap[k].requests)
        /\ Len(rateLimitMap[k].requests) >= 2
        /\ now - rateLimitMap[k].requests[1] >= 120000

\* C22 as stated: lastRequestAt of a record always equals the instant of the
\* most recent check made on its key, whether Allowed or Rejected.
C22_LastRequestIsLastCheck ==
    [][\A k \in Keys :
          (Check(k) /\ k \in DOMAIN rateLimitMap') =>
              rateLimitMap'[k].lastRequest = now]_vars

\* C22, amended: lastRequestAt of a record always equals the instant of the
\* most recent Allowed check on its key: an Allowed check sets it to now,
\* and a Rejected check, like the passing of time, leaves it as it was.
C22_LastRequestIsLastAllowed ==
    [][\A k \in Keys :
          k \in DOMAIN rateLimitMap' =>
              IF Check(k) /\ last'.result.allowed
              THEN rateLimitMap'[k].lastRequest = now
              ELSE /\ k \in DOMAIN rateLimitMap
                   /\ rateLimitMap'[k].lastRequest
                         = rateLimitMap[k].lastRequest]_vars

\* C22 witness: a check has just been Rejected on a key whose record holds
\* several requests, at an instant later than the record's lastRequest.
C22_Witness ==
    \E k \in Keys :
        /\ last.key = k
        /\ ~last.result.allowed
        /\ k \in DOMAIN rateLimitMap
        /\ rateLimitMap[k].totalRequests >= 2
        /\ rateLimitMap[k].lastRequest < now

\* C23: totalRequests of a record never decreases from the record's
\* creation until it is reaped, across Allowed and Rejected checks, and it
\* never exceeds 10.
C23_TotalMonotoneAtMostTen ==
    [][\A k \in Keys :
          k \in DOMAIN rateLimitMap' =>
              /\ rateLimitMap'[k].totalRequests <= 10
              /\ rateLimitMap'[k].totalRequests
                    >= (IF k \in DOMAIN rateLimitMap
                        THEN rateLimitMap[k].totalRequests ELSE 1)]_vars

\* C23 witness: the tenth Allowed check on a record has just been made.
C23_Witness ==
    \E k \in Keys :
        /\ last.key = k
        /\ last.result.allowed
        /\ k \in DOMAIN rateLimitMap
        /\ rateLimitMap[k].totalRequests = 10
        /\ rateLimitMap[k].lastRequest = now

\* C27: the per-minute policy never fires: whenever a check has passed the
\* session cap and the cooldown, at most one stored timestamp lies within
\* the trailing 60 seconds, and no check returns Rejected{rate_limit}.
C27_MinutePolicyNeverFires ==
    [][\A k \in Keys :
          Check(k) =>
              LET userData == UserData(rateLimitMap, k)
                  passed == /\ userData.totalRequests < 10
                            /\ now - userData.lastRequest >= 30000
                  trailing == {i \in 1..Len(userData.requests) :
                                  now - userData.requests[i] < 60000}
              IN  /\ passed => (Cardinality(trailing) <= 1
                                /\ last'.result.allowed)
                  /\ (~last'.result.allowed)
                        => last'.result.reason # "rate_limit"]_vars

\* C27 witness: a check made exactly 30 s after the previous Allowed one,
\* with that one timestamp in its trailing minute, has been Allowed.
C27_Witness ==
    \E k \in Keys :
        /\ last.key = k
        /\ last.result.allowed
        /\ k \in DOMAIN rateLimitMap
        /\ Len(rateLimitMap[k].requests) >= 2
        /\ rateLimitMap[k].requests[Len(rateLimitMap[k].requests) - 1]
              = now - 30000

---------------------------------------------------------------------------
(* Claims about the endpoint's use of admission, checked under SpecEndpoint *)

\* The requests whose admission check was Allowed
Admitted == {r \in Reqs : requests[r].pc # "none"
                          /\ requests[r].rateLimitCheck.allowed}

\* C29: an admission slot is consumed when the check is Allowed and is never
\* given back: a request that passes admission leaves totalRequests
\* incremented and lastRequest set to its instant, also when it is then
\* refused for an empty prompt (400) or fails later (500); no later step of
\* any handler lowers either, so the record counts every admitted request.
C29_SlotConsumedNeverReturned ==
    [][/\ \A r \in Reqs, k \in Keys, promptGiven \in BOOLEAN,
             accessToken \in BOOLEAN :
             (Post(r, k, promptGiven, accessToken)
                /\ requests'[r].rateLimitCheck.allowed) =>
                   /\ rateLimitMap'[k].totalRequests
                         = UserData(rateLimitMap, k).totalRequests + 1
                   /\ rateLimitMap'[k].lastRequest = now
       /\ \A k \in DOMAIN rateLimitMap :
             /\ k \in DOMAIN rateLimitMap'
             /\ rateLimitMap'[k].totalRequests >= rateLimitMap[k].totalRequests
             /\ rateLimitMap'[k].lastRequest >= rateLimitMap[k].lastRequest
       /\ \A k \in Keys :
             UserData(rateLimitMap', k).totalRequests = Cardinality(Admitted')
      ]_vars

\* C29 witness: a request admitted and failed with 500, one admitted 30 s
\* later and refused with 400 for its empty prompt, and a third rejected at
\* once for the cooldown that the second one started.
C29_Witness ==
    \E r1, r2, r3 \in Reqs, k \in Keys :
        /\ requests[r1].status = 500 /\ requests[r1].rateLimitCheck.allowed
        /\ requests[r2].status = 400 /\ requests[r2].rateLimitCheck.allowed
        /\ requests[r3].status = 429
        /\ requests[r3].rateLimitCheck.reason = "cooldown"
        /\ requests[r3].rateLimitCheck.retryAfter = 30000
        /\ k \in DOMAIN rateLimitMap
        /\ rateLimitMap[k].totalRequests = 2
        /\ rateLimitMap[k].lastRequest = now

---------------------------------------------------------------------------
(* Claims about the store's records and tiers *)

\* No two artworks of a history share an id.
UniqueIds(artworks) ==
    \A i, j \in 1..Len(artworks) :
        i # j => artworks[i].id # artworks[j].id

\* C26 as stated: artifact ids are unique within an owner's history, also
\* when two appends happen at the same clock instant, so remove(ownerId, id)
\* never removes more than one record.
C26_IdsUniqueRemoveOne ==
    [][/\ \A u \in Users :
             /\ UniqueIds(ListNow(u)')
             /\ UniqueIds(FallbackArtworks(sessionArtworks', u))
       /\ \A p \in Procs, u \in Users, id \in RemovedIds :
             Delete(p, u, id) =>
                 Len(ListNow(u)') >= Len(ListNow(u)) - 1]_vars

\* The history that the remote store holds for an owner: the array its
\* payload is the text of, and none when there is no such payload.
RemoteHistory(store, userId) ==
    IF RedisGet(store, userId).json = "array"
    THEN RedisGet(store, userId).items
    ELSE <<>>

\* C24 as stated: records held in the in-process fallback map are never
\* written to the remote backend: no step of an append or a list puts into
\* the remote store a record of the memory-tier history that the remote
\* store did not hold already.
C24_FallbackNeverWrittenRemote ==
    [][\A u \in Users :
          \A i \in 1..Len(FallbackArtworks(sessionArtworks, u)) :
              LET a == FallbackArtworks(sessionArtworks, u)[i]
              IN  Contains(RemoteHistory(remote', u), a)
                     => Contains(RemoteHistory(remote, u), a)]_vars

\* C28 as stated: an append whose remote write succeeds leaves as remote
\* history the new record followed by the previous remote history, cut to
\* 50, also when the remote read inside that append failed.
C28_AppendKeepsRemoteHistory ==
    [][\A p \in Procs :
          AddWrite(p, TRUE, TRUE) =>
              RemoteHistory(remote', calls[p].userId)
                 = Slice(<<calls[p].artwork>>
                            \o RemoteHistory(remote, calls[p].userId))]_vars

---------------------------------------------------------------------------
(* Claims about the delete endpoint, checked under SpecRemoval *)

\* C30 as stated: the delete endpoint answers 404 'Artwork not found'
\* whenever remove reports that no record was removed, and answers success
\* only when a record was actually removed from the owner's history.
C30_DeleteAnswersWhatRemoveDid ==
    [][\A r \in Reqs, p \in Procs, ok \in BOOLEAN, id \in RequestedIds :
          DeleteArtworkRoute(r, p, ok, id) =>
              LET u == IF ok THEN "u1" ELSE "anonymous"
              IN  /\ (out'.kind = "bool" /\ ~out'.ok) =>
                        /\ requests'[r].status = 404
                        /\ requests'[r].body = [error |-> "Artwork not found"]
                  /\ requests'[r].status = 200 =>
                        /\ Has(ListNow(u), id)
                        /\ ListNow(u)' = WithoutId(ListNow(u), id)]_vars

===========================================================================
